---- MODULE Spec2Model ----
(***************************************************************************)
(* Model of src/project/src/pages/backoffice/Properties.tsx: the           *)
(* BackofficeProperties page.  The component state (useState hooks), the   *)
(* two async loaders (loadProperties, loadPropertyDetails), the click and  *)
(* search handlers, and the remote tables the loaders query.               *)
(*                                                                         *)
(* An await of a remote query is one step of the model: the query resolves *)
(* (the server reads the table at that moment, or answers with an error)   *)
(* and the handler runs on to its next await.                              *)
(***************************************************************************)
EXTENDS Integers, Sequences, FiniteSets, TLC

(***************************************************************************)
(* Bounds of the model                                                     *)
(***************************************************************************)
\* how many queries may answer with an error in one behaviour
MaxFaults == 1
\* how many times another client changes a remote row in one behaviour
MaxRemoteWrites == 1
\* rows per property in the rooms table
MaxRooms == 3
\* rows per property in the tenants table
MaxTenants == 2
\* rows per property in the payments table, where the sums are checked
MaxPayments == 2
\* length of the text typed in the search box
MaxQueryLen == 2
\* rows per property in the payments table, where the detail modal is checked
MaxDetailPayments == 6

(***************************************************************************)
(* JavaScript values                                                       *)
(***************************************************************************)
\* null / undefined of a string-valued state
NULL == "null"

RECURSIVE Gcd(_, _)
Gcd(a, b) == IF b = 0 THEN a ELSE Gcd(b, a % b)

\* A JavaScript number: a finite rational n/d in lowest terms (d > 0), NaN or
\* +Infinity.
Fin(n, d) ==
  LET g == Gcd(IF n < 0 THEN -n ELSE n, d)
  IN  [kind |-> "fin", n |-> n \div g, d |-> d \div g]
Num(n) == Fin(n, 1)
NaN == [kind |-> "NaN", n |-> 0, d |-> 1]
Infinity == [kind |-> "Inf", n |-> 1, d |-> 1]

IsFinite(x) == x.kind = "fin"
IsInteger(x) == x.kind = "fin" /\ x.n % x.d = 0
IntOf(x) == x.n \div x.d

\* a / b on two non-negative integers, as IEEE division answers
JsDiv(a, b) ==
  IF b = 0
    THEN (IF a = 0 THEN NaN ELSE Infinity)
    ELSE Fin(a, b)

\* x * k for a non-negative integer k
JsTimes(x, k) ==
  IF x.kind = "fin" THEN Fin(x.n * k, x.d) ELSE x

\* x || 0 : NaN and 0 are falsy
JsOrZero(x) ==
  IF x.kind = "NaN" \/ (x.kind = "fin" /\ x.n = 0) THEN Num(0) ELSE x

\* Math.round: floor(x + 0.5), NaN and Infinity unchanged
MathRound(x) ==
  IF x.kind = "fin" THEN Num((2 * x.n + x.d) \div (2 * x.d)) ELSE x

(***************************************************************************)
(* Strings: sequences of one-character strings                             *)
(***************************************************************************)
ToLowerChar(c) ==
  CASE c = "A" -> "a"
    [] c = "B" -> "b"
    [] c = "K" -> "k"
    [] c = "U" -> "u"
    [] OTHER -> c

\* String.prototype.toLowerCase
ToLowerCase(s) == [i \in 1..Len(s) |-> ToLowerChar(s[i])]

\* String.prototype.includes
Includes(s, q) ==
  \E i \in 0..(Len(s) - Len(q)) : SubSeq(s, i + 1, i + Len(q)) = q

Unknown == <<"U", "n", "k", "n", "o", "w", "n">>

(***************************************************************************)
(* Dates: <<year, month, day>> with the month counted from 0, as the Date  *)
(* getters count it; NoDate is a null date column.                         *)
(***************************************************************************)
NoDate == <<>>

\* a >= b on two Date values
DateGE(a, b) ==
  \/ a[1] > b[1]
  \/ a[1] = b[1] /\ a[2] > b[2]
  \/ a[1] = b[1] /\ a[2] = b[2] /\ a[3] >= b[3]

\* new Date(now.getFullYear(), now.getMonth(), 1)
MonthStart(now) == <<now[1], now[2], 1>>
\* new Date(now.getFullYear(), 0, 1)
YearStart(now) == <<now[1], 0, 1>>

(***************************************************************************)
(* Query results: { data, error } of the remote client.  data is null     *)
(* (ok = FALSE) exactly when the query answered with an error.             *)
(***************************************************************************)
Data(rows) == [ok |-> TRUE, rows |-> rows]
Failed == [ok |-> FALSE, rows |-> <<>>]

\* number of rows of a sequence that satisfy Test
RECURSIVE CountRows(_, _, _)
CountRows(rows, field, value) ==
  IF rows = <<>> THEN 0
  ELSE (IF Head(rows)[field] = value THEN 1 ELSE 0)
         + CountRows(Tail(rows), field, value)

(***************************************************************************)
(* loadProperties: the statistics of one property                          *)
(***************************************************************************)
\* rooms?.length || 0
TotalRooms(rooms) == IF rooms.ok THEN Len(rooms.rows) ELSE 0

\* rooms?.filter(r => r.status === 'occupied').length || 0
OccupiedRooms(rooms) ==
  IF rooms.ok THEN Len(SelectSeq(rooms.rows, LAMBDA r : r.status = "occupied")) ELSE 0

\* OccupancyRate without its Math.round
OccupancyRateNotRounded(occupiedRooms, totalRooms) ==
  IF totalRooms > 0
    THEN JsTimes(JsDiv(occupiedRooms, totalRooms), 100)
    ELSE Num(0)

\* totalRooms > 0 ? Math.round((occupiedRooms / totalRooms) * 100) : 0
OccupancyRate(occupiedRooms, totalRooms) ==
  IF totalRooms > 0
    THEN MathRound(JsTimes(JsDiv(occupiedRooms, totalRooms), 100))
    ELSE Num(0)

\* rooms.reduce((sum, room) => sum + Number(room.price), 0)
RECURSIVE SumPrices(_)
SumPrices(rows) ==
  IF rows = <<>> THEN 0 ELSE SumPrices(SubSeq(rows, 1, Len(rows) - 1)) + rows[Len(rows)].price

\* AvgRoomPrice without its "|| 0"
AvgRoomPriceNoFallback(rooms, totalRooms) ==
  IF rooms.ok THEN JsDiv(SumPrices(rooms.rows), totalRooms) ELSE NaN

\* rooms?.reduce(...) / totalRooms || 0 ; undefined / 0 is NaN
AvgRoomPrice(rooms, totalRooms) ==
  IF rooms.ok
    THEN JsOrZero(JsDiv(SumPrices(rooms.rows), totalRooms))
    ELSE JsOrZero(NaN)

\* tenants?.filter(t => t.status === 'active') || []
ActiveTenants(tenants) ==
  IF tenants.ok THEN SelectSeq(tenants.rows, LAMBDA t : t.status = "active") ELSE <<>>

\* (end.getFullYear() - start.getFullYear()) * 12 + end.getMonth() - start.getMonth()
StayMonths(tenant) ==
  (tenant.end_date[1] - tenant.start_date[1]) * 12
    + tenant.end_date[2] - tenant.start_date[2]

RECURSIVE SumStay(_)
SumStay(rows) ==
  IF rows = <<>> THEN 0 ELSE SumStay(SubSeq(rows, 1, Len(rows) - 1)) + StayMonths(rows[Len(rows)])

\* activeTenants.reduce(...) / (activeTenants.length || 1)
AvgTenantStay(activeTenants) ==
  Fin(SumStay(activeTenants), IF Len(activeTenants) = 0 THEN 1 ELSE Len(activeTenants))

\* historicalTenants ? (h.length / (h.length + activeTenants.length)) * 100 : 0
TurnoverRate(historicalTenants, activeTenants) ==
  IF historicalTenants.ok
    THEN JsTimes(JsDiv(Len(historicalTenants.rows),
                       Len(historicalTenants.rows) + Len(activeTenants)), 100)
    ELSE Num(0)

\* paymentDate && paymentDate >= start
DatedFrom(p, start) == p.date # NoDate /\ DateGE(p.date, start)

\* payments?.filter(p => ... paymentDate >= monthStart) || []
MonthlyPayments(payments, now) ==
  IF payments.ok
    THEN SelectSeq(payments.rows, LAMBDA p : DatedFrom(p, MonthStart(now)))
    ELSE <<>>

\* payments?.filter(p => ... paymentDate >= yearStart) || []
YearlyPayments(payments, now) ==
  IF payments.ok
    THEN SelectSeq(payments.rows, LAMBDA p : DatedFrom(p, YearStart(now)))
    ELSE <<>>

\* SumByStatus without its test of the status
RECURSIVE SumAnyStatus(_, _)
SumAnyStatus(rows, status) ==
  IF rows = <<>> THEN 0
  ELSE SumAnyStatus(SubSeq(rows, 1, Len(rows) - 1), status) + rows[Len(rows)].amount

\* rows.reduce((sum, payment) => payment.status === status ? sum + Number(payment.amount) : sum, 0)
RECURSIVE SumByStatus(_, _)
SumByStatus(rows, status) ==
  IF rows = <<>> THEN 0
  ELSE LET sum == SumByStatus(SubSeq(rows, 1, Len(rows) - 1), status)
           payment == rows[Len(rows)]
       IN  IF payment.status = status THEN sum + payment.amount ELSE sum

\* payments?.reduce(... 'paid' ...) || 0
TotalRevenue(payments) == IF payments.ok THEN SumByStatus(payments.rows, "paid") ELSE 0
MonthlyRevenue(payments, now) == SumByStatus(MonthlyPayments(payments, now), "paid")
YearlyRevenue(payments, now) == SumByStatus(YearlyPayments(payments, now), "paid")
\* payments?.reduce(... 'pending' ...) || 0
PendingPayments(payments) == IF payments.ok THEN SumByStatus(payments.rows, "pending") ELSE 0
\* payments?.reduce(... 'overdue' ...) || 0
OverduePayments(payments) == IF payments.ok THEN SumByStatus(payments.rows, "overdue") ELSE 0

\* totalPayments > 0 ? (paidPayments / totalPayments) * 100 : 0
PaymentCollectionRate(payments) ==
  LET totalPayments == IF payments.ok THEN Len(payments.rows) ELSE 0
      paidPayments == IF payments.ok THEN CountRows(payments.rows, "status", "paid") ELSE 0
  IN  IF totalPayments > 0 THEN JsTimes(JsDiv(paidPayments, totalPayments), 100) ELSE Num(0)

\* maintenanceRequests?.filter(r => r.status === 'pending' || r.status === 'in-progress').length || 0
OpenRequests(maintenanceRequests) ==
  IF maintenanceRequests.ok
    THEN Len(SelectSeq(maintenanceRequests.rows,
                       LAMBDA r : r.status = "pending" \/ r.status = "in-progress"))
    ELSE 0

HighPriorityCost == 1000000
MediumPriorityCost == 500000
OtherPriorityCost == 250000

EstimatedCost(request) ==
  IF request.priority = "high" THEN HighPriorityCost
  ELSE IF request.priority = "medium" THEN MediumPriorityCost
  ELSE OtherPriorityCost

RECURSIVE SumCosts(_)
SumCosts(rows) ==
  IF rows = <<>> THEN 0 ELSE SumCosts(SubSeq(rows, 1, Len(rows) - 1)) + EstimatedCost(rows[Len(rows)])

\* maintenanceRequests?.reduce(...) || 0
MaintenanceCosts(maintenanceRequests) ==
  IF maintenanceRequests.ok THEN SumCosts(maintenanceRequests.rows) ELSE 0

(***************************************************************************)
(* State                                                                   *)
(***************************************************************************)
VARIABLES
  dbProperties,        \* remote table properties: a sequence of rows
  dbRooms,             \* remote table rooms, by property id
  dbTenants,           \* remote table tenants, by property id
  dbPayments,          \* remote table payments, by property id
  dbMaintenance,       \* remote table maintenance_requests, by property id
  clock,               \* what new Date() answers
  properties,          \* useState: the loaded list
  propertyStats,       \* useState: property id -> PropertyStats
  searchQuery,         \* useState
  isLoading,           \* useState
  error,               \* useState
  showPropertyDetails, \* useState: a property id or NULL
  selectedProperty,    \* useState: <<>> (null) or <<PropertyDetails>>
  lpPc,                \* loadProperties: the await it stands at
  lp,                  \* loadProperties: its local variables
  ldPc,                \* loadPropertyDetails: the await it stands at
  ld,                  \* loadPropertyDetails: its local variables
  inflight,            \* queries issued and not yet resolved
  faults,              \* queries that answered with an error so far
  writes               \* remote changes by other clients so far

dbVars == <<dbProperties, dbRooms, dbTenants, dbPayments, dbMaintenance, clock>>
uiVars == <<properties, propertyStats, searchQuery, isLoading, error,
            showPropertyDetails, selectedProperty>>
vars == <<dbProperties, dbRooms, dbTenants, dbPayments, dbMaintenance, clock,
          properties, propertyStats, searchQuery, isLoading, error,
          showPropertyDetails, selectedProperty, lpPc, lp, ldPc, ld,
          inflight, faults, writes>>

\* table backoffice_users, as selected by 'user_id, role'
BackofficeUsers == << [user_id |-> "u1", role |-> <<"a", "B">>] >>

\* table users, joined through properties_owner_id_fkey: email and raw_user_meta_data.name
Users ==
  [u \in {"u1", "u2"} |->
     IF u = "u1" THEN [email |-> <<"b", "@">>, name |-> <<"K", "a">>]
                 ELSE [email |-> <<"a", "@">>, name |-> <<>>]]

\* a query of the remote client, named by the loader that issued it
Query(fn, table, id) == [fn |-> fn, table |-> table, id |-> id]

\* the answers a query may get: its rows as the table holds them now, or an error
Outcomes(rows) == {Data(rows)} \cup (IF faults < MaxFaults THEN {Failed} ELSE {})

\* the fault counter after the answer res
FaultsAfter(res) == IF res.ok THEN faults ELSE faults + 1

\* a function with one more entry (stats[property.id] = ...)
Put(f, k, v) == [x \in DOMAIN f \cup {k} |-> IF x = k THEN v ELSE f[x]]

\* the locals of one iteration of the stats loop, before they are assigned
NoLocals ==
  [totalRooms |-> 0, occupiedRooms |-> 0, occupancyRate |-> Num(0),
   avgRoomPrice |-> Num(0), activeTenants |-> <<>>, avgTenantStay |-> Num(0),
   historicalTenants |-> Failed, turnoverRate |-> Num(0),
   totalRevenue |-> 0, monthlyRevenue |-> 0, yearlyRevenue |-> 0,
   pendingPayments |-> 0, overduePayments |-> 0, paymentCollectionRate |-> Num(0)]

LpInit == [propertiesData |-> <<>>, i |-> 0, stats |-> <<>>, it |-> NoLocals]
LdInit == [propertyId |-> NULL, propertyStats |-> <<>>, property |-> <<>>,
           rooms |-> <<>>, tenants |-> <<>>]

(***************************************************************************)
(* loadProperties (lines 60-224)                                           *)
(***************************************************************************)
\* backofficeUsers?.find(u => u.user_id === property.owner_id), as <<>> or <<u>>
FindUser(backofficeUsers, owner_id) ==
  LET found == SelectSeq(backofficeUsers, LAMBDA u : u.user_id = owner_id)
  IN  IF found = <<>> THEN <<>> ELSE <<Head(found)>>

\* the select list is 'user_id, role': the row has no email
OwnerEmail(backofficeUser) == Unknown

\* backofficeUser?.role || 'Unknown'
OwnerName(backofficeUser) ==
  IF backofficeUser = <<>> \/ backofficeUser[1].role = <<>>
    THEN Unknown
    ELSE backofficeUser[1].role

\* (propertiesData || []).map(property => ({...property, owner_email, owner_name}))
PropertiesWithOwners(propertiesData, backofficeUsers) ==
  [k \in 1..Len(propertiesData) |->
     LET property == propertiesData[k]
         backofficeUser == FindUser(backofficeUsers, property.owner_id)
     IN  [id |-> property.id, name |-> property.name, city |-> property.city,
          owner_id |-> property.owner_id,
          owner_email |-> OwnerEmail(backofficeUser),
          owner_name |-> OwnerName(backofficeUser)]]

\* the rows of backoffice_users with user_id in ownerIds
UsersIn(ownerIds) == SelectSeq(BackofficeUsers, LAMBDA u : u.user_id \in ownerIds)

\* the rows of tenants of a property with status 'inactive'
InactiveRows(rows) == SelectSeq(rows, LAMBDA t : t.status = "inactive")

\* the record assigned to stats[property.id] (lines 196-214)
StatsRecord(id, it, maintenanceRequests) ==
  [id |-> id,
   total_revenue |-> it.totalRevenue,
   monthly_revenue |-> it.monthlyRevenue,
   yearly_revenue |-> it.yearlyRevenue,
   total_tenants |-> Len(it.activeTenants),
   total_rooms |-> it.totalRooms,
   occupied_rooms |-> it.occupiedRooms,
   occupancy_rate |-> it.occupancyRate,
   pending_payments |-> it.pendingPayments,
   maintenance_costs |-> MaintenanceCosts(maintenanceRequests),
   avg_room_price |-> it.avgRoomPrice,
   payment_collection_rate |-> it.paymentCollectionRate,
   overdue_payments |-> it.overduePayments,
   avg_tenant_stay |-> MathRound(it.avgTenantStay),
   tenant_turnover_rate |-> MathRound(it.turnoverRate),
   maintenance_requests_open |-> OpenRequests(maintenanceRequests),
   maintenance_requests_total |->
     IF maintenanceRequests.ok THEN Len(maintenanceRequests.rows) ELSE 0]

\* the locals of the loop body once the rooms query has resolved (lines 103-106)
WithRooms(it, rooms) ==
  [it EXCEPT
     !.totalRooms = TotalRooms(rooms),
     !.occupiedRooms = OccupiedRooms(rooms),
     !.occupancyRate = OccupancyRate(OccupiedRooms(rooms), TotalRooms(rooms)),
     !.avgRoomPrice = AvgRoomPrice(rooms, TotalRooms(rooms))]

\* ... once the tenants query has resolved (lines 114-123)
WithTenants(it, tenants) ==
  [it EXCEPT
     !.activeTenants = ActiveTenants(tenants),
     !.avgTenantStay = AvgTenantStay(ActiveTenants(tenants))]

\* ... once the inactive-tenants query has resolved (lines 132-134)
WithHistoricalTenants(it, historicalTenants) ==
  [it EXCEPT
     !.historicalTenants = historicalTenants,
     !.turnoverRate = TurnoverRate(historicalTenants, it.activeTenants)]

\* ... once the payments query has resolved (lines 142-175)
WithPayments(it, payments, now) ==
  [it EXCEPT
     !.totalRevenue = TotalRevenue(payments),
     !.monthlyRevenue = MonthlyRevenue(payments, now),
     !.yearlyRevenue = YearlyRevenue(payments, now),
     !.pendingPayments = PendingPayments(payments),
     !.overduePayments = OverduePayments(payments),
     !.paymentCollectionRate = PaymentCollectionRate(payments)]

\* the property the stats loop stands at
CurrentProperty == lp.propertiesData[lp.i]

\* Await that issues the next queries without waiting for the awaited one
NoAwait(resolved, issued) == inflight' = inflight \cup issued

\* the queries a step leaves outstanding: the awaited one resolved, the next ones issued
Await(resolved, issued) == inflight' = (inflight \ {resolved}) \cup issued

\* useEffect(() => { loadProperties() }, []) up to the await of the properties query
LoadProperties ==
  /\ lpPc = "mount"
  /\ isLoading' = TRUE
  /\ error' = NULL
  /\ inflight' = inflight \cup {Query("loadProperties", "properties", NULL)}
  /\ lpPc' = "properties"
  /\ UNCHANGED <<dbVars, properties, propertyStats, searchQuery,
                 showPropertyDetails, selectedProperty, lp, ldPc, ld, faults, writes>>

\* LoadPropertiesCatch without its finally block
LoadPropertiesCatchKeepsLoading(resolved) ==
  /\ error' = "Failed to load properties"
  /\ UNCHANGED isLoading
  /\ lpPc' = "done"
  /\ lp' = LpInit
  /\ inflight' = inflight \ {resolved}
  /\ UNCHANGED <<properties, propertyStats>>

\* catch (err) { setError('Failed to load properties') } finally { setIsLoading(false) }
LoadPropertiesCatch(resolved) ==
  /\ error' = "Failed to load properties"
  /\ isLoading' = FALSE
  /\ lpPc' = "done"
  /\ lp' = LpInit
  /\ Await(resolved, {})
  /\ UNCHANGED <<properties, propertyStats>>

\* the properties query resolves; lines 66-77
AfterPropertiesQuery ==
  /\ lpPc = "properties"
  /\ \E res \in Outcomes(dbProperties) :
       /\ faults' = FaultsAfter(res)
       /\ IF ~res.ok
            THEN LoadPropertiesCatch(Query("loadProperties", "properties", NULL))
            ELSE /\ lp' = [lp EXCEPT !.propertiesData = res.rows]
                 /\ Await(Query("loadProperties", "properties", NULL),
                          {Query("loadProperties", "backoffice_users", NULL)})
                 /\ lpPc' = "backoffice_users"
                 /\ UNCHANGED <<properties, propertyStats, isLoading, error>>
  /\ UNCHANGED <<dbVars, searchQuery, showPropertyDetails, selectedProperty,
                 ldPc, ld, writes>>

\* setPropertyStats(stats) and the finally block; lines 217, 222
LoadPropertiesFinish(resolved, stats) ==
  /\ propertyStats' = stats
  /\ isLoading' = FALSE
  /\ lpPc' = "done"
  /\ lp' = LpInit
  /\ Await(resolved, {})

\* the backoffice_users query resolves; lines 79-98
AfterUsersQuery ==
  /\ lpPc = "backoffice_users"
  /\ LET ownerIds == {lp.propertiesData[k].owner_id : k \in 1..Len(lp.propertiesData)}
         q == Query("loadProperties", "backoffice_users", NULL)
     IN  \E res \in Outcomes(UsersIn(ownerIds)) :
           /\ faults' = FaultsAfter(res)
           /\ IF ~res.ok
                THEN LoadPropertiesCatch(q)
                ELSE /\ properties' = PropertiesWithOwners(lp.propertiesData, res.rows)
                     /\ IF lp.propertiesData = <<>>
                          THEN /\ LoadPropertiesFinish(q, <<>>)
                               /\ UNCHANGED error
                          ELSE /\ lp' = [lp EXCEPT !.i = 1, !.stats = <<>>]
                               /\ Await(q, {Query("loadProperties", "rooms",
                                                  lp.propertiesData[1].id)})
                               /\ lpPc' = "rooms"
                               /\ UNCHANGED <<propertyStats, isLoading, error>>
  /\ UNCHANGED <<dbVars, searchQuery, showPropertyDetails, selectedProperty,
                 ldPc, ld, writes>>

\* what every step of the stats loop leaves alone
LoopFrame ==
  UNCHANGED <<dbVars, properties, searchQuery, error, showPropertyDetails,
              selectedProperty, ldPc, ld, writes>>

\* the rooms query resolves; lines 98-112
AfterRoomsQuery ==
  /\ lpPc = "rooms"
  /\ LET id == CurrentProperty.id
     IN  \E rooms \in Outcomes(dbRooms[id]) :
           /\ faults' = FaultsAfter(rooms)
           /\ lp' = [lp EXCEPT !.it = WithRooms(lp.it, rooms)]
           /\ Await(Query("loadProperties", "rooms", id),
                    {Query("loadProperties", "tenants", id)})
  /\ lpPc' = "tenants"
  /\ UNCHANGED <<propertyStats, isLoading>>
  /\ LoopFrame

\* the tenants query resolves; lines 109-130
AfterTenantsQuery ==
  /\ lpPc = "tenants"
  /\ LET id == CurrentProperty.id
     IN  \E tenants \in Outcomes(dbTenants[id]) :
           /\ faults' = FaultsAfter(tenants)
           /\ lp' = [lp EXCEPT !.it = WithTenants(lp.it, tenants)]
           /\ Await(Query("loadProperties", "tenants", id),
                    {Query("loadProperties", "historicalTenants", id)})
  /\ lpPc' = "historicalTenants"
  /\ UNCHANGED <<propertyStats, isLoading>>
  /\ LoopFrame

\* the inactive-tenants query resolves; lines 126-140
AfterHistoricalTenantsQuery ==
  /\ lpPc = "historicalTenants"
  /\ LET id == CurrentProperty.id
     IN  \E historicalTenants \in Outcomes(InactiveRows(dbTenants[id])) :
           /\ faults' = FaultsAfter(historicalTenants)
           /\ lp' = [lp EXCEPT !.it = WithHistoricalTenants(lp.it, historicalTenants)]
           /\ Await(Query("loadProperties", "historicalTenants", id),
                    {Query("loadProperties", "payments", id)})
  /\ lpPc' = "payments"
  /\ UNCHANGED <<propertyStats, isLoading>>
  /\ LoopFrame

\* the payments query resolves; lines 137-181
AfterPaymentsQuery ==
  /\ lpPc = "payments"
  /\ LET id == CurrentProperty.id
         now == clock
     IN  \E payments \in Outcomes(dbPayments[id]) :
           /\ faults' = FaultsAfter(payments)
           /\ lp' = [lp EXCEPT !.it = WithPayments(lp.it, payments, now)]
           /\ Await(Query("loadProperties", "payments", id),
                    {Query("loadProperties", "maintenance_requests", id)})
  /\ lpPc' = "maintenance_requests"
  /\ UNCHANGED <<propertyStats, isLoading>>
  /\ LoopFrame

\* the maintenance_requests query resolves; lines 178-223: the record is stored
\* and the loop goes on to the next property or ends
AfterMaintenanceQuery ==
  /\ lpPc = "maintenance_requests"
  /\ LET id == CurrentProperty.id
         q == Query("loadProperties", "maintenance_requests", id)
     IN  \E maintenanceRequests \in Outcomes(dbMaintenance[id]) :
           LET stats == Put(lp.stats, id, StatsRecord(id, lp.it, maintenanceRequests))
           IN  /\ faults' = FaultsAfter(maintenanceRequests)
               /\ IF lp.i < Len(lp.propertiesData)
                    THEN /\ lp' = [lp EXCEPT !.i = lp.i + 1, !.stats = stats,
                                             !.it = NoLocals]
                         /\ Await(q, {Query("loadProperties", "rooms",
                                            lp.propertiesData[lp.i + 1].id)})
                         /\ lpPc' = "rooms"
                         /\ UNCHANGED <<propertyStats, isLoading>>
                    ELSE LoadPropertiesFinish(q, stats)
  /\ LoopFrame

(***************************************************************************)
(* loadPropertyDetails (lines 226-283) and handleViewDetails (285-288)     *)
(***************************************************************************)
\* FilteredProperties without toLowerCase() on the search query
FilteredPropertiesQueryAsTyped ==
  SelectSeq(properties, LAMBDA property :
    \/ Includes(ToLowerCase(property.name), searchQuery)
    \/ Includes(ToLowerCase(property.city), searchQuery)
    \/ Includes(ToLowerCase(property.owner_email), searchQuery)
    \/ Includes(ToLowerCase(property.owner_name), searchQuery))

\* properties.filter(...) of lines 290-295
FilteredProperties ==
  SelectSeq(properties, LAMBDA property :
    \/ Includes(ToLowerCase(property.name), ToLowerCase(searchQuery))
    \/ Includes(ToLowerCase(property.city), ToLowerCase(searchQuery))
    \/ Includes(ToLowerCase(property.owner_email), ToLowerCase(searchQuery))
    \/ Includes(ToLowerCase(property.owner_name), ToLowerCase(searchQuery)))

\* the cards on the page: none while the spinner is shown (line 323)
RenderedCards ==
  IF isLoading THEN {}
  ELSE {FilteredProperties[k].id : k \in 1..Len(FilteredProperties)}

\* the modal is on the page (line 422)
ModalShown == showPropertyDetails # NULL /\ selectedProperty # <<>>

\* .select('*, users!properties_owner_id_fkey(...)').eq('id', propertyId).single():
\* the one row with that id, joined with its owner; an error unless it is one row
SingleProperty(propertyId) ==
  LET found == SelectSeq(dbProperties, LAMBDA r : r.id = propertyId)
  IN  IF Len(found) = 1
        THEN Data(<<[id |-> found[1].id, name |-> found[1].name,
                     city |-> found[1].city, owner_id |-> found[1].owner_id,
                     users |-> Users[found[1].owner_id]]>>)
        ELSE Failed

\* OrderedDesc with ascending: true
RECURSIVE OrderedAsc(_, _)
OrderedAsc(rows, left) ==
  IF left = {} THEN {<<>>}
  ELSE UNION {{<<rows[k]>> \o rest : rest \in OrderedAsc(rows, left \ {k})} :
                k \in {j \in left : \A m \in left :
                                      rows[j].created_at <= rows[m].created_at}}

\* .order('created_at', { ascending: false }): every order of the rows in
\* which created_at never increases (rows of equal created_at in any order)
RECURSIVE OrderedDesc(_, _)
OrderedDesc(rows, left) ==
  IF left = {} THEN {<<>>}
  ELSE UNION {{<<rows[k]>> \o rest : rest \in OrderedDesc(rows, left \ {k})} :
                k \in {j \in left : \A m \in left :
                                      rows[j].created_at >= rows[m].created_at}}

\* StatsOf reading the entry of the first property, whatever propertyId is
StatsOfFirstProperty(stats, propertyId) ==
  IF "p1" \in DOMAIN stats THEN <<stats["p1"]>> ELSE <<>>

\* propertyStats[propertyId], as <<>> (undefined) or <<stats>>
StatsOf(stats, propertyId) ==
  IF propertyId \in DOMAIN stats THEN <<stats[propertyId]>> ELSE <<>>

\* users?.raw_user_meta_data?.name || users?.email
DetailOwnerName(users) == IF users.name # <<>> THEN users.name ELSE users.email

\* the propertyDetails object of lines 265-273
PropertyDetailsOf(property, stats, rooms, tenants, payments) ==
  [id |-> property.id, name |-> property.name, city |-> property.city,
   owner_id |-> property.owner_id,
   owner_email |-> property.users.email,
   owner_name |-> DetailOwnerName(property.users),
   stats |-> stats, rooms |-> rooms, tenants |-> tenants, payments |-> payments]

\* selectedProperty.payments?.slice(0, 5) of line 576
RecentActivity ==
  IF selectedProperty = <<>> THEN <<>>
  ELSE LET payments == selectedProperty[1].payments
       IN  SubSeq(payments, 1, IF Len(payments) < 5 THEN Len(payments) ELSE 5)

\* a click on the card of propertyId: handleViewDetails, then loadPropertyDetails
\* up to the await of its first query.  The cards stay mounted under the modal
\* (line 422 adds the overlay, it removes nothing), and the button inside a card
\* (lines 399-405) keeps the keyboard focus order, so a card can be activated
\* while the modal is shown; only the spinner (line 323) takes the cards away.
HandleViewDetails(propertyId) ==
  /\ propertyId \in RenderedCards
  /\ showPropertyDetails' = propertyId
  /\ isLoading' = TRUE
  /\ error' = NULL
  /\ ld' = [LdInit EXCEPT !.propertyId = propertyId, !.propertyStats = propertyStats]
  /\ ldPc' = "properties"
  /\ inflight' = inflight \cup {Query("loadPropertyDetails", "properties", propertyId)}
  /\ UNCHANGED <<dbVars, properties, propertyStats, searchQuery, selectedProperty,
                 lpPc, lp, faults, writes>>

\* LoadPropertyDetailsCatch without its setSelectedProperty(null)
LoadPropertyDetailsCatchKeepsSelection(resolved) ==
  /\ error' = "Failed to load property details"
  /\ UNCHANGED selectedProperty
  /\ isLoading' = FALSE
  /\ ldPc' = "idle"
  /\ ld' = LdInit
  /\ inflight' = inflight \ {resolved}

\* catch (err) { setError(...); setSelectedProperty(null) } finally { setIsLoading(false) }
LoadPropertyDetailsCatch(resolved) ==
  /\ error' = "Failed to load property details"
  /\ selectedProperty' = <<>>
  /\ isLoading' = FALSE
  /\ ldPc' = "idle"
  /\ ld' = LdInit
  /\ Await(resolved, {})

DetailFrame ==
  UNCHANGED <<dbVars, properties, propertyStats, searchQuery, showPropertyDetails,
              lpPc, lp, writes>>

\* one await of loadPropertyDetails resolves with res and the next query is issued
DetailStep(table, res, field, nextTable) ==
  LET q == Query("loadPropertyDetails", table, ld.propertyId)
  IN  /\ faults' = FaultsAfter(res)
      /\ IF ~res.ok
           THEN LoadPropertyDetailsCatch(q)
           ELSE /\ ld' = [ld EXCEPT ![field] = res.rows]
                /\ Await(q, {Query("loadPropertyDetails", nextTable, ld.propertyId)})
                /\ ldPc' = nextTable
                /\ UNCHANGED <<selectedProperty, isLoading, error>>

\* the single-row properties query resolves; lines 232-244
AfterDetailPropertyQuery ==
  /\ ldPc = "properties"
  /\ LET single == SingleProperty(ld.propertyId)
     IN  \E res \in (IF single.ok THEN Outcomes(single.rows) ELSE {Failed}) :
           DetailStep("properties", res, "property", "rooms")
  /\ DetailFrame

\* the rooms query resolves; lines 241-252
AfterDetailRoomsQuery ==
  /\ ldPc = "rooms"
  /\ \E res \in Outcomes(dbRooms[ld.propertyId]) :
       DetailStep("rooms", res, "rooms", "tenants")
  /\ DetailFrame

\* the tenants query resolves; lines 249-261
AfterDetailTenantsQuery ==
  /\ ldPc = "tenants"
  /\ \E res \in Outcomes(dbTenants[ld.propertyId]) :
       DetailStep("tenants", res, "tenants", "payments")
  /\ DetailFrame

\* the payments query resolves; lines 257-282
AfterDetailPaymentsQuery ==
  /\ ldPc = "payments"
  /\ LET rows == dbPayments[ld.propertyId]
         q == Query("loadPropertyDetails", "payments", ld.propertyId)
     IN  \E ordered \in OrderedDesc(rows, 1..Len(rows)) :
           \E res \in Outcomes(ordered) :
             /\ faults' = FaultsAfter(res)
             /\ IF ~res.ok
                  THEN LoadPropertyDetailsCatch(q)
                  ELSE /\ selectedProperty' =
                            <<PropertyDetailsOf(ld.property[1],
                                                StatsOf(ld.propertyStats, ld.propertyId),
                                                ld.rooms, ld.tenants, res.rows)>>
                       /\ isLoading' = FALSE
                       /\ ldPc' = "idle"
                       /\ ld' = LdInit
                       /\ Await(q, {})
                       /\ UNCHANGED error
  /\ DetailFrame

\* the close button of the modal; lines 428-431
CloseModal ==
  /\ ModalShown
  /\ showPropertyDetails' = NULL
  /\ selectedProperty' = <<>>
  /\ UNCHANGED <<dbVars, properties, propertyStats, searchQuery, isLoading, error,
                 lpPc, lp, ldPc, ld, inflight, faults, writes>>

\* the keys pressed in the search box
Alphabet == {"a", "K"}

\* onChange of the search box (line 315) when a character is typed
TypeCharacter(c) ==
  /\ Len(searchQuery) < MaxQueryLen
  /\ searchQuery' = Append(searchQuery, c)
  /\ UNCHANGED <<dbVars, properties, propertyStats, isLoading, error,
                 showPropertyDetails, selectedProperty, lpPc, lp, ldPc, ld,
                 inflight, faults, writes>>

\* onChange of the search box (line 315) when the last character is deleted
DeleteCharacter ==
  /\ searchQuery # <<>>
  /\ searchQuery' = SubSeq(searchQuery, 1, Len(searchQuery) - 1)
  /\ UNCHANGED <<dbVars, properties, propertyStats, isLoading, error,
                 showPropertyDetails, selectedProperty, lpPc, lp, ldPc, ld,
                 inflight, faults, writes>>

(***************************************************************************)
(* The remote tables change under other clients                            *)
(***************************************************************************)
\* another client sets an active tenant of a property to inactive
TenantBecomesInactive(id, k) ==
  /\ writes < MaxRemoteWrites
  /\ k \in 1..Len(dbTenants[id])
  /\ dbTenants[id][k].status = "active"
  /\ dbTenants' = [dbTenants EXCEPT ![id][k].status = "inactive"]
  /\ writes' = writes + 1
  /\ UNCHANGED <<dbProperties, dbRooms, dbPayments, dbMaintenance, clock, uiVars,
                 lpPc, lp, ldPc, ld, inflight, faults>>

(***************************************************************************)
(* The rows the tables may hold                                            *)
(***************************************************************************)
PropertyIds == {"p1", "p2"}

Property1 == [id |-> "p1", name |-> <<"A", "b">>, city |-> <<"K", "a">>, owner_id |-> "u1"]
Property2 == [id |-> "p2", name |-> <<"b", "b">>, city |-> <<"a", "K">>, owner_id |-> "u2"]

\* every sequence over S of length at most n
RECURSIVE SeqsUpTo(_, _)
SeqsUpTo(S, n) ==
  IF n = 0 THEN {<<>>}
  ELSE SeqsUpTo(S, n - 1)
         \cup {Append(t, x) : t \in {u \in SeqsUpTo(S, n - 1) : Len(u) = n - 1}, x \in S}

Rooms == [status : {"occupied", "vacant"}, price : {2, 3}]
RoomLists == SeqsUpTo(Rooms, MaxRooms)

\* the k-th tenant of a property: its dates are fixed, its status is not
Tenant(k, status) ==
  [id |-> k, status |-> status,
   start_date |-> <<2023, 10, 1>>, end_date |-> <<2024, k, 1>>]
TenantLists ==
  UNION {[1..n -> {"active", "inactive"}] : n \in 0..MaxTenants}
TenantsOf(statuses) == [k \in 1..Len(statuses) |-> Tenant(k, statuses[k])]

\* new Date() during the load
Now == <<2024, 5, 15>>
PaymentStatuses == {"paid", "pending", "overdue", "cancelled"}
\* no date, later this month, earlier this month, earlier this year, last year
\* and next year
PaymentDates ==
  {NoDate, <<2024, 5, 20>>, <<2024, 5, 2>>, <<2024, 2, 1>>, <<2023, 11, 31>>, <<2025, 0, 10>>}
RECURSIVE Pow2(_)
Pow2(k) == IF k = 0 THEN 1 ELSE 2 * Pow2(k - 1)
\* the k-th payment of a property: amounts are distinct powers of two, so a sum
\* names the payments it is made of
Payment(k, shape) ==
  [id |-> k, status |-> shape.status, amount |-> Pow2(k - 1),
   date |-> shape.date, created_at |-> shape.created_at]
PaymentShapes == [status : PaymentStatuses, date : PaymentDates, created_at : {1}]
PaymentsOf(shapes) == [k \in 1..Len(shapes) |-> Payment(k, shapes[k])]
PaymentLists == {PaymentsOf(sh) : sh \in SeqsUpTo(PaymentShapes, MaxPayments)}

(***************************************************************************)
(* Specifications                                                          *)
(***************************************************************************)
\* a table that holds the given rows for property p1 and none for p2
OnlyP1(rows) == [id \in PropertyIds |-> IF id = "p1" THEN rows ELSE <<>>]
\* a table that holds rows1 for property p1 and rows2 for p2
Table(rows1, rows2) == [id \in PropertyIds |-> IF id = "p1" THEN rows1 ELSE rows2]

\* the state after the first render, the mount effect not yet run, with the
\* tables drawn from the given sets
InitWith(propertyLists, roomTables, tenantTables, paymentTables, maintenanceTables) ==
  /\ dbProperties \in propertyLists
  /\ dbRooms \in roomTables
  /\ dbTenants \in tenantTables
  /\ dbPayments \in paymentTables
  /\ dbMaintenance \in maintenanceTables
  /\ clock = Now
  /\ properties = <<>>
  /\ propertyStats = <<>>
  /\ searchQuery = <<>>
  /\ isLoading = TRUE
  /\ error = NULL
  /\ showPropertyDetails = NULL
  /\ selectedProperty = <<>>
  /\ lpPc = "mount"
  /\ lp = LpInit
  /\ ldPc = "idle"
  /\ ld = LdInit
  /\ inflight = {}
  /\ faults = 0
  /\ writes = 0

SampleRooms ==
  <<[status |-> "occupied", price |-> 3], [status |-> "vacant", price |-> 2]>>
SamplePayments ==
  PaymentsOf(<<[status |-> "paid", date |-> <<2024, 5, 20>>, created_at |-> 1],
               [status |-> "pending", date |-> NoDate, created_at |-> 2]>>)
SampleTenants == TenantsOf(<<"active", "inactive">>)
SampleMaintenance ==
  <<[status |-> "pending", priority |-> "high"], [status |-> "done", priority |-> "low"]>>

\* two properties with different rows; the second has no rooms and one tenant
Init ==
  InitWith({<<Property1, Property2>>},
           {Table(SampleRooms, <<>>)},
           {Table(SampleTenants, TenantsOf(<<"active">>))},
           {Table(SamplePayments, <<>>)},
           {Table(SampleMaintenance, <<>>)})

\* one property; one of its tables is drawn from all the lists of that table
InitStats ==
  \/ InitWith({<<Property1>>}, {OnlyP1(rows) : rows \in RoomLists},
              {OnlyP1(SampleTenants)}, {OnlyP1(SamplePayments)},
              {OnlyP1(SampleMaintenance)})
  \/ InitWith({<<Property1>>}, {OnlyP1(SampleRooms)},
              {OnlyP1(TenantsOf(st)) : st \in TenantLists}, {OnlyP1(SamplePayments)},
              {OnlyP1(SampleMaintenance)})
  \/ InitWith({<<Property1>>}, {OnlyP1(SampleRooms)},
              {OnlyP1(SampleTenants)}, {OnlyP1(rows) : rows \in PaymentLists},
              {OnlyP1(SampleMaintenance)})

\* payments that differ in created_at only
DetailPayments(createdAt) ==
  PaymentsOf([k \in 1..Len(createdAt) |->
                [status |-> "paid", date |-> NoDate, created_at |-> createdAt[k]]])

\* the times of creation of n rows of a table that is nearly oldest-first: the
\* k-th row was created at k - 1, k or k + 1
RECURSIVE NearlyOldestFirst(_)
NearlyOldestFirst(n) ==
  IF n = 0 THEN {<<>>}
  ELSE {Append(t, v) : t \in NearlyOldestFirst(n - 1), v \in {n - 1, n, n + 1}}

\* (a) fewer payments than the modal shows, created at any of three times, or
\* (b) up to MaxDetailPayments payments in a table that is nearly oldest-first
DetailPaymentLists ==
  {DetailPayments(t) : t \in SeqsUpTo(1..3, 4)}
    \cup {DetailPayments(t) : t \in UNION {NearlyOldestFirst(n) : n \in 0..MaxDetailPayments}}

\* the PropertyStats record of a list load whose queries all answered with data
\* and met the tables as they are now
StatsWhenLoaded(id) ==
  StatsRecord(id,
    WithPayments(
      WithHistoricalTenants(
        WithTenants(WithRooms(NoLocals, Data(dbRooms[id])), Data(dbTenants[id])),
        Data(InactiveRows(dbTenants[id]))),
      Data(dbPayments[id]), clock),
    Data(dbMaintenance[id]))

\* the state in which a list load whose queries all answered with data has left
\* the page, the tables drawn from the given sets and unchanged since
InitLoaded(propertyLists, roomTables, tenantTables, paymentTables, maintenanceTables) ==
  /\ dbProperties \in propertyLists
  /\ dbRooms \in roomTables
  /\ dbTenants \in tenantTables
  /\ dbPayments \in paymentTables
  /\ dbMaintenance \in maintenanceTables
  /\ clock = Now
  /\ properties =
       PropertiesWithOwners(dbProperties,
         UsersIn({dbProperties[k].owner_id : k \in 1..Len(dbProperties)}))
  /\ propertyStats =
       [id \in {dbProperties[k].id : k \in 1..Len(dbProperties)} |-> StatsWhenLoaded(id)]
  /\ searchQuery = <<>>
  /\ isLoading = FALSE
  /\ error = NULL
  /\ showPropertyDetails = NULL
  /\ selectedProperty = <<>>
  /\ lpPc = "done"
  /\ lp = LpInit
  /\ ldPc = "idle"
  /\ ld = LdInit
  /\ inflight = {}
  /\ faults = 0
  /\ writes = 0

\* one property, loaded, whose payments are drawn from DetailPaymentLists
InitDetail ==
  InitLoaded({<<Property1>>}, {OnlyP1(SampleRooms)}, {OnlyP1(SampleTenants)},
             {OnlyP1(rows) : rows \in DetailPaymentLists}, {OnlyP1(SampleMaintenance)})

\* InitLoaded is where a list load without a failed query ends (checked under
\* SpecStats and Spec while no other client has changed a row)
LoadedAsInitLoaded ==
  (lpPc = "done" /\ faults = 0 /\ writes = 0 /\ ldPc = "idle"
     /\ showPropertyDetails = NULL /\ selectedProperty = <<>> /\ error = NULL
     /\ searchQuery = <<>>)
    => InitLoaded({dbProperties}, {dbRooms}, {dbTenants}, {dbPayments}, {dbMaintenance})

\* two properties whose names and cities are drawn from a few texts
Names == {<<"A", "b">>, <<"k", "A">>, <<"b", "b">>}
InitSearch ==
  InitWith({<<[Property1 EXCEPT !.name = n1, !.city = c1],
              [Property2 EXCEPT !.name = n2, !.city = c2]>> :
              n1 \in Names, c1 \in Names, n2 \in Names, c2 \in Names},
           {OnlyP1(SampleRooms)}, {OnlyP1(SampleTenants)},
           {OnlyP1(SamplePayments)}, {OnlyP1(SampleMaintenance)})

NextLoad ==
  \/ LoadProperties
  \/ AfterPropertiesQuery
  \/ AfterUsersQuery
  \/ AfterRoomsQuery
  \/ AfterTenantsQuery
  \/ AfterHistoricalTenantsQuery
  \/ AfterPaymentsQuery
  \/ AfterMaintenanceQuery

NextDetail ==
  \/ \E propertyId \in PropertyIds : HandleViewDetails(propertyId)
  \/ AfterDetailPropertyQuery
  \/ AfterDetailRoomsQuery
  \/ AfterDetailTenantsQuery
  \/ AfterDetailPaymentsQuery
  \/ CloseModal

Next ==
  \/ NextLoad
  \/ NextDetail
  \/ \E c \in Alphabet : TypeCharacter(c)
  \/ DeleteCharacter
  \/ \E id \in PropertyIds, k \in 1..MaxTenants : TenantBecomesInactive(id, k)

\* the page with its user and the other clients of the tables
Spec == Init /\ [][Next]_vars

\* the list load alone, over every shape of one property's rows
SpecStats == InitStats /\ [][NextLoad]_vars

\* the detail loads of one loaded property with many payments
SpecDetail == InitDetail /\ [][NextDetail]_vars

\* the awaited queries of loadPropertyDetails answering
DetailQueries ==
  \/ AfterDetailPropertyQuery
  \/ AfterDetailRoomsQuery
  \/ AfterDetailTenantsQuery
  \/ AfterDetailPaymentsQuery

\* the page and its user, the tables left alone by other clients
NextPage ==
  \/ NextLoad
  \/ NextDetail
  \/ \E c \in Alphabet : TypeCharacter(c)
  \/ DeleteCharacter

\* the page when every query that was issued returns, with data or with an error
SpecQueriesReturn ==
  Init /\ [][NextPage]_vars /\ WF_vars(NextLoad) /\ WF_vars(DetailQueries)

\* the list load and the search box, over the names of two properties
NextSearch ==
  \/ NextLoad
  \/ \E c \in Alphabet : TypeCharacter(c)
  \/ DeleteCharacter
SpecSearch == InitSearch /\ [][NextSearch]_vars

(***************************************************************************)
(* Properties of the statistics                                            *)
(***************************************************************************)
\* the rows of a table of one property that have the given status
WithStatus(rows, status) == {k \in 1..Len(rows) : rows[k].status = status}

\* the sum of the amounts of the rows whose places are in S
RECURSIVE AmountOf(_, _)
AmountOf(rows, S) ==
  IF S = {} THEN 0
  ELSE LET k == CHOOSE j \in S : TRUE IN rows[k].amount + AmountOf(rows, S \ {k})

\* C1: a property whose inactive-tenant query returns zero rows and that has no
\* active tenant gets tenant_turnover_rate 0 in its PropertyStats, never NaN.
\* (Under SpecStats the tables do not change, so with no failed query the
\* inactive-tenant query returned the inactive rows of dbTenants.)
C1_TurnoverZeroWithoutTenants ==
  \A id \in DOMAIN propertyStats :
    (faults = 0 /\ propertyStats[id].total_tenants = 0
       /\ InactiveRows(dbTenants[id]) = <<>>)
      => propertyStats[id].tenant_turnover_rate = Num(0)

\* C2: if any query of loadProperties fails, the load ends with the error
\* 'Failed to load properties' and neither the list nor propertyStats is updated.
\* (Under SpecStats only loadProperties issues queries, so faults counts its failures.)
C2_AnyFailureAbortsLoad ==
  (lpPc = "done" /\ faults > 0)
    => /\ error = "Failed to load properties"
       /\ properties = <<>>
       /\ propertyStats = <<>>

\* C3: total_revenue is the sum of the paid payments, monthly_revenue and
\* yearly_revenue are sums of paid payments only, pending_payments is the sum of
\* the pending ones and overdue_payments the sum of the overdue ones; taking away
\* a payment changes no sum of a status the payment does not have.
C3_SumsByStatus ==
  \A id \in DOMAIN propertyStats :
    faults = 0 =>
      LET rows == dbPayments[id]
          st == propertyStats[id]
          paid == WithStatus(rows, "paid")
          Without(k) == Data(SubSeq(rows, 1, k - 1) \o SubSeq(rows, k + 1, Len(rows)))
      IN  /\ st.total_revenue = AmountOf(rows, paid)
          /\ \E S \in SUBSET paid : st.monthly_revenue = AmountOf(rows, S)
          /\ \E S \in SUBSET paid : st.yearly_revenue = AmountOf(rows, S)
          /\ st.pending_payments = AmountOf(rows, WithStatus(rows, "pending"))
          /\ st.overdue_payments = AmountOf(rows, WithStatus(rows, "overdue"))
          /\ \A k \in 1..Len(rows) :
               /\ rows[k].status # "paid" =>
                    /\ st.total_revenue = TotalRevenue(Without(k))
                    /\ st.monthly_revenue = MonthlyRevenue(Without(k), clock)
                    /\ st.yearly_revenue = YearlyRevenue(Without(k), clock)
               /\ rows[k].status # "pending" =>
                    st.pending_payments = PendingPayments(Without(k))
               /\ rows[k].status # "overdue" =>
                    st.overdue_payments = OverduePayments(Without(k))

\* C3 witness: a stored record summed from a paid, a pending and another payment
C3_Witness ==
  /\ "p1" \in DOMAIN propertyStats
  /\ faults = 0
  /\ Len(dbPayments["p1"]) >= 2
  /\ WithStatus(dbPayments["p1"], "paid") # {}
  /\ WithStatus(dbPayments["p1"], "paid") # 1..Len(dbPayments["p1"])
  /\ propertyStats["p1"].total_revenue > 0

\* C4: a property with zero rooms (an empty list, or no data) gets occupancy_rate 0
\* and avg_room_price 0, and neither field is ever NaN or Infinity.
C4_NoRoomsNoDivisionByZero ==
  \A id \in DOMAIN propertyStats :
    LET st == propertyStats[id]
    IN  /\ IsFinite(st.occupancy_rate)
        /\ IsFinite(st.avg_room_price)
        /\ ((dbRooms[id] = <<>> \/ st.total_rooms = 0)
              => st.occupancy_rate = Num(0) /\ st.avg_room_price = Num(0))

\* C4 witness: stored records of a property without rooms, and of one whose
\* rooms query failed
C4_Witness ==
  /\ "p1" \in DOMAIN propertyStats
  /\ dbRooms["p1"] = <<>>
  /\ faults = 0
  /\ propertyStats["p1"].total_rooms = 0

(***************************************************************************)
(* Properties of the loaders                                               *)
(***************************************************************************)
\* a step in which a query of loadPropertyDetails answers with an error and the
\* load finishes
DetailLoadFails == ldPc # "idle" /\ ldPc' = "idle" /\ faults' = faults + 1

\* a step in which the last query of loadPropertyDetails answers with data
DetailLoadSucceeds == ldPc = "payments" /\ ldPc' = "idle" /\ faults' = faults

\* C5: when a query of loadPropertyDetails returns an error, the load finishes
\* with selectedProperty null, error 'Failed to load property details', the
\* modal not shown and isLoading false.
C5_DetailFailureClearsSelection ==
  [][DetailLoadFails =>
       /\ selectedProperty' = <<>>
       /\ error' = "Failed to load property details"
       /\ ~ModalShown'
       /\ ~isLoading']_vars

\* C5 witness: a detail load has failed while the modal showed another property
C5_Witness ==
  /\ ldPc = "idle"
  /\ error = "Failed to load property details"
  /\ showPropertyDetails = "p2"
  /\ selectedProperty = <<>>
  /\ ~isLoading

\* C6: a successful loadPropertyDetails for p sets selectedProperty.stats to the
\* entry the list load stored in propertyStats under p, and no step of a detail
\* load changes propertyStats or the properties list.
C6_DetailReusesStats ==
  [][/\ DetailLoadSucceeds =>
          /\ ld.propertyId \in DOMAIN propertyStats
          /\ selectedProperty' # <<>>
          /\ selectedProperty'[1].id = ld.propertyId
          /\ selectedProperty'[1].stats = <<propertyStats[ld.propertyId]>>
     /\ (ldPc # "idle" \/ ldPc' # "idle") =>
          /\ propertyStats' = propertyStats
          /\ properties' = properties]_vars

\* C6 witness: the details of the second property are shown with its own stats
C6_Witness ==
  /\ selectedProperty # <<>>
  /\ selectedProperty[1].id = "p2"
  /\ selectedProperty[1].stats = <<propertyStats["p2"]>>
  /\ propertyStats["p2"] # propertyStats["p1"]
  /\ propertyStats["p2"].total_tenants = 1

\* the queries of loadProperties that are outstanding
ListQueries == {q \in inflight : q.fn = "loadProperties"}

\* C9: during loadProperties at most one query is outstanding; a query of a
\* property is outstanding only while the loop stands at that property, after
\* every query of the properties before it has resolved.
C9_OneQueryAtATime ==
  /\ Cardinality(ListQueries) <= 1
  /\ \A q \in ListQueries :
       /\ q.table = lpPc
       /\ q.id # NULL => (lp.i \in 1..Len(lp.propertiesData) /\ q.id = CurrentProperty.id)
  /\ lpPc \notin {"mount", "done"} => ListQueries # {}

\* C9 witness: the first query of the second property is the one outstanding
C9_Witness ==
  /\ lpPc = "rooms"
  /\ lp.i = 2
  /\ inflight = {Query("loadProperties", "rooms", "p2")}
  /\ "p1" \in DOMAIN lp.stats

\* the ids of a sequence of tenant rows
TenantIds(rows) == {rows[k].id : k \in 1..Len(rows)}

\* C10: the active tenants and the inactive tenants that go into
\* tenant_turnover_rate come from one state of the tenants table: with every
\* query answered, no tenant is in both and every tenant of the property is in one.
C10_TurnoverFromOneSnapshot ==
  (lpPc = "payments" /\ faults = 0) =>
    LET active == TenantIds(lp.it.activeTenants)
        inactive == TenantIds(lp.it.historicalTenants.rows)
    IN  /\ active \cap inactive = {}
        /\ active \cup inactive = TenantIds(dbTenants[CurrentProperty.id])

(***************************************************************************)
(* Properties of the view                                                  *)
(***************************************************************************)
\* C7: the Recent Activity list shows at most 5 payments: the first 5 of the
\* property's payments ordered newest-first by created_at, all of them when there
\* are fewer than 5.  (Under SpecDetail the payments table does not change.)
C7_RecentActivityNewestFive ==
  selectedProperty # <<>> =>
    LET all == dbPayments[selectedProperty[1].id]
        shown == RecentActivity
        shownIds == {shown[k].id : k \in 1..Len(shown)}
    IN  /\ Len(shown) <= 5
        /\ Len(shown) = (IF Len(all) < 5 THEN Len(all) ELSE 5)
        /\ Cardinality(shownIds) = Len(shown)
        /\ \A k \in 1..Len(shown) : \E m \in 1..Len(all) : all[m] = shown[k]
        /\ \A k \in 1..(Len(shown) - 1) : shown[k].created_at >= shown[k + 1].created_at
        /\ \A m \in 1..Len(all) :
             all[m].id \notin shownIds =>
               \A k \in 1..Len(shown) : shown[k].created_at >= all[m].created_at

\* C7 witness: six payments, the newest of them last in the table and the oldest
\* first; five are shown, the last of the table first and the first not at all
C7_Witness ==
  /\ selectedProperty # <<>>
  /\ Len(dbPayments["p1"]) = 6
  /\ Len(RecentActivity) = 5
  /\ RecentActivity[1].id = 6
  /\ \A k \in 1..5 : RecentActivity[k].id # 1

\* two characters that differ at most in their case
CaseVariants == {<<"A", "a">>, <<"B", "b">>, <<"K", "k">>, <<"U", "u">>}
SameLetter(c, d) == c = d \/ <<c, d>> \in CaseVariants \/ <<d, c>> \in CaseVariants

\* text holds query somewhere, letter case ignored
HoldsIgnoringCase(text, query) ==
  \E at \in 0..(Len(text) - Len(query)) :
    \A j \in 1..Len(query) : SameLetter(text[at + j], query[j])

\* C8: a loaded property is in filteredProperties exactly when the search query,
\* letter case ignored, is part of its name, city, owner_email or owner_name;
\* the empty query keeps every loaded property.
C8_FilterMatchesFourFields ==
  LET filtered == FilteredProperties
      shownIds == {filtered[k].id : k \in 1..Len(filtered)}
      Matches(property) ==
        \E text \in {property.name, property.city,
                     property.owner_email, property.owner_name} :
          HoldsIgnoringCase(text, searchQuery)
  IN  /\ \A k \in 1..Len(properties) :
           properties[k].id \in shownIds <=> Matches(properties[k])
      /\ \A k \in 1..Len(filtered) : \E m \in 1..Len(properties) : properties[m] = filtered[k]
      /\ Cardinality(shownIds) = Len(filtered)
      /\ searchQuery = <<>> => filtered = properties

\* C8 witness: the query "Ka" keeps the one property whose city is "kA"
C8_Witness ==
  /\ Len(properties) = 2
  /\ searchQuery = <<"K", "a">>
  /\ Len(FilteredProperties) = 1
  /\ FilteredProperties[1].city = <<"k", "A">>


(***************************************************************************)
(* Properties of the date windows                                          *)
(***************************************************************************)
\* a date that lies between start and now, both included
InWindow(date, start, now) ==
  date # NoDate /\ DateGE(date, start) /\ DateGE(now, date)

\* the paid rows whose date lies in the window that begins at start
PaidInWindow(rows, start, now) ==
  {k \in WithStatus(rows, "paid") : InWindow(rows[k].date, start, now)}

\* C11: monthly_revenue is the sum of the paid payments dated from the first day
\* of the current month up to now, yearly_revenue the sum of the paid payments
\* dated from 1 January of the current year up to now; a paid payment dated
\* outside its window, or without a date, is in neither sum.
C11_RevenueWindowsToDate ==
  \A id \in DOMAIN propertyStats :
    faults = 0 =>
      LET rows == dbPayments[id]
          st == propertyStats[id]
      IN  /\ st.monthly_revenue = AmountOf(rows, PaidInWindow(rows, MonthStart(clock), clock))
          /\ st.yearly_revenue = AmountOf(rows, PaidInWindow(rows, YearStart(clock), clock))


(***************************************************************************)
(* Properties of the occupancy rate                                        *)
(***************************************************************************)
\* C12: for a property with at least one room, occupancy_rate is
\* 100 * occupied_rooms / total_rooms rounded to the nearest integer, where
\* occupied_rooms counts the rooms with status 'occupied'; it is an integer
\* between 0 and 100, and occupied_rooms never exceeds total_rooms.
C12_OccupancyRateRounded ==
  \A id \in DOMAIN propertyStats :
    LET st == propertyStats[id]
        rate == st.occupancy_rate
        off == 100 * st.occupied_rooms - IntOf(rate) * st.total_rooms
    IN  /\ st.occupied_rooms <= st.total_rooms
        /\ IsInteger(rate) /\ IntOf(rate) \in 0..100
        /\ st.total_rooms >= 1 =>
             2 * (IF off < 0 THEN -off ELSE off) <= st.total_rooms
        /\ (faults = 0 /\ Len(dbRooms[id]) >= 1) =>
             /\ st.total_rooms = Len(dbRooms[id])
             /\ st.occupied_rooms = Cardinality(WithStatus(dbRooms[id], "occupied"))

\* C12 witness: stored records of a property with three rooms, one where two of
\* them are occupied (66.67 becomes 67)
C12_Witness ==
  /\ "p1" \in DOMAIN propertyStats
  /\ faults = 0
  /\ Len(dbRooms["p1"]) = 3
  /\ propertyStats["p1"].occupied_rooms = 2
  /\ propertyStats["p1"].occupancy_rate = Num(67)


(***************************************************************************)
(* Properties of the loading flag                                          *)
(***************************************************************************)
\* loadProperties has begun and has neither resolved nor failed
ListLoadRunning == lpPc \notin {"mount", "done"}
\* loadPropertyDetails has begun and has neither resolved nor failed
DetailLoadRunning == ldPc # "idle"

\* C13: isLoading is true from the start of a list load or a detail load until
\* that load resolves or fails; a load whose queries all return ends with
\* isLoading false, whether it succeeded or failed; while isLoading is true no
\* card is rendered and no detail load starts.
C13_LoadingUntilLoadEnds ==
  /\ []((ListLoadRunning \/ DetailLoadRunning) => isLoading)
  /\ [](isLoading => RenderedCards = {})
  /\ [][(~DetailLoadRunning /\ DetailLoadRunning') => ~isLoading]_vars
  /\ [][(ListLoadRunning /\ ~ListLoadRunning') => ~isLoading']_vars
  /\ [][(DetailLoadRunning /\ ~DetailLoadRunning') => ~isLoading']_vars
  /\ ListLoadRunning ~> (lpPc = "done" /\ ~isLoading)
  /\ DetailLoadRunning ~> (~DetailLoadRunning /\ ~isLoading)

\* C13 witness: a detail load has failed, the spinner is gone and the cards are
\* on the page again
C13_Witness ==
  /\ lpPc = "done"
  /\ ldPc = "idle"
  /\ faults > 0
  /\ error = "Failed to load property details"
  /\ ~isLoading
  /\ RenderedCards # {}


(***************************************************************************)
(* Properties of the selection                                             *)
(***************************************************************************)
\* C14: in every reachable state a non-null selectedProperty has the id held in
\* showPropertyDetails, whatever the order of card clicks, modal closes and
\* query answers; and closing the modal sets showPropertyDetails and
\* selectedProperty to null.
C14_SelectionMatchesShown ==
  /\ [](selectedProperty # <<>> => selectedProperty[1].id = showPropertyDetails)
  /\ [][CloseModal => (showPropertyDetails' = NULL /\ selectedProperty' = <<>>)]_vars

============================================================================
